---- MODULE Spec2Model ----
(***************************************************************************)
(* Model of src/jwt.rs: the JwtMiddleware factory, the JwtService it binds  *)
(* around a downstream service, decode_jwt and JwtDecodeErrors.             *)
(*                                                                         *)
(* Header values are sequences of bytes (0..255), so that HeaderValue's     *)
(* to_str, str::starts_with and the slice [7..] are computed, not assumed.  *)
(***************************************************************************)
EXTENDS Integers, Sequences, FiniteSets

VARIABLES mw, svc, req

vars == <<mw, svc, req>>

----------------------------------------------------------------------------
(* Bounds of the model.                                                     *)

\* Largest number of dot-separated segments after the scheme prefix.
MaxSegs == 3

\* Two requests, numbered in the order in which call receives them, and two
\* service instances, numbered in the order in which new_transform binds
\* them: the pairs that the statements about two requests or two instances
\* compare.  The requests may be in flight at the same time.
Requests == {1, 2}
Services == {1, 2}

----------------------------------------------------------------------------
(* Values.                                                                  *)

\* Option<_>: None, or Some(v) with the value read back by Get.
None == <<>>
Some(v) == <<v>>
Get(o) == o[1]

\* DecodingKey value handed to JwtMiddleware::new.
Keys == {"s3cr3t"}

\* Validation values handed to JwtMiddleware::new (only validate_exp varies).
Validations == {[validate_exp |-> TRUE], [validate_exp |-> FALSE]}

\* Closures that error_handler can install.
Mappers == {"unauthorized"}

\* The value of type T that an earlier stage may have left in the extensions.
PriorClaims == [user_id |-> "prior", expired |-> FALSE]

\* "Bearer "
BearerPrefix == <<66, 101, 97, 114, 101, 114, 32>>

\* Length of the prefix that decode_jwt slices off.
PrefixLen == 7

\* '.'
Dot == 46

\* Header values are built from a scheme prefix and up to MaxSegs segments
\* joined by dots.  "bearer ", "BearerX" and the empty prefix are the
\* non-matching schemes; byte 255 is obs-text, which a HeaderValue may hold
\* but to_str rejects.
Prefixes ==
    { BearerPrefix,
      <<98, 101, 97, 114, 101, 114, 32>>,
      <<66, 101, 97, 114, 101, 114, 88>>,
      <<>> }

\* Segment i of a generated tail: "h" (a header naming HS256), "p" / "q" (a
\* payload in date / expired), "k" / "w" (the HMAC of the message under
\* "s3cr3t" / "wrong-secret") or byte 255.
SegChoice(i) ==
    IF i = 1 THEN {<<104>>}
    ELSE IF i = 2 THEN {<<112>>, <<113>>}
    ELSE IF i = 3 THEN {<<107>>, <<119>>, <<255>>}
    ELSE {<<107>>}

RECURSIVE JoinDots(_)
JoinDots(segs) ==
    IF Len(segs) = 0 THEN <<>>
    ELSE IF Len(segs) = 1 THEN segs[1]
    ELSE segs[1] \o <<Dot>> \o JoinDots(Tail(segs))

SegSeqs ==
    UNION { { s \in [1..n -> UNION {SegChoice(i) : i \in 1..n}] :
                \A i \in 1..n : s[i] \in SegChoice(i) } : n \in 0..MaxSegs }

\* The header values requests carry: "Bearer " before every tail, and each
\* other prefix before the tails of three segments.
HeaderValues ==
    { BearerPrefix \o JoinDots(s) : s \in SegSeqs }
    \cup { p \o JoinDots(s) : p \in Prefixes, s \in {t \in SegSeqs : Len(t) = 3} }

----------------------------------------------------------------------------
(* HeaderValue::to_str and str::starts_with.                                *)

\* http::HeaderValue::to_str succeeds iff every byte is visible ASCII
\* (32..126) or a tab.
IsVisibleAscii(b) == (b >= 32 /\ b < 127) \/ b = 9

\* A lossy conversion in place of to_str: every byte string is accepted.
ToStrLossy(hv) == TRUE

ToStrOk(hv) == \A i \in 1..Len(hv) : IsVisibleAscii(hv[i])

\* An ASCII-case-insensitive prefix test in place of starts_with.
LowerByte(b) == IF b >= 65 /\ b <= 90 THEN b + 32 ELSE b

StartsWithIgnoreCase(s, prefix) ==
    /\ Len(s) >= Len(prefix)
    /\ \A i \in 1..Len(prefix) : LowerByte(s[i]) = LowerByte(prefix[i])

StartsWith(s, prefix) ==
    /\ Len(s) >= Len(prefix)
    /\ SubSeq(s, 1, Len(prefix)) = prefix

\* The slice taken one byte early: [6..] where the code has [7..].
SliceFromEarly(s, n) == SubSeq(s, n, Len(s))

\* &header_value[7..]
SliceFrom(s, n) == SubSeq(s, n + 1, Len(s))

----------------------------------------------------------------------------
(* jsonwebtoken::decode, by its contract: split off the signature and the   *)
(* payload at the last two dots, decode the header, check the algorithm and *)
(* the signature, then deserialize and validate the claims.                 *)

HasDot(s) == \E i \in 1..Len(s) : s[i] = Dot

LastDot(s) == CHOOSE i \in 1..Len(s) :
                 /\ s[i] = Dot
                 /\ \A j \in (i + 1)..Len(s) : s[j] # Dot

\* The HMAC-SHA256 signature segment of any message under a key.
Sign(key) == IF key = "s3cr3t" THEN <<107>> ELSE <<119>>

CodecOk(claims) == [ok |-> TRUE, claims |-> claims]
CodecErr(cause) == [ok |-> FALSE, cause |-> cause]

\* Deserialization of a payload segment into T.
DeserializeClaims(payload) ==
    IF payload = <<112>> THEN Some([user_id |-> "42", expired |-> FALSE])
    ELSE IF payload = <<113>> THEN Some([user_id |-> "42", expired |-> TRUE])
    ELSE None

JwtDecode(token, key, validation) ==
    IF ~HasDot(token) THEN CodecErr("InvalidToken")
    ELSE
      LET signature == SubSeq(token, LastDot(token) + 1, Len(token))
          message   == SubSeq(token, 1, LastDot(token) - 1)
      IN IF ~HasDot(message) THEN CodecErr("InvalidToken")
         ELSE
           LET payload == SubSeq(message, LastDot(message) + 1, Len(message))
               header  == SubSeq(message, 1, LastDot(message) - 1)
           IN IF header # <<104>> THEN CodecErr("Base64")
              ELSE IF signature # Sign(key) THEN CodecErr("InvalidSignature")
              ELSE IF DeserializeClaims(payload) = None THEN CodecErr("Json")
              ELSE IF validation.validate_exp /\ Get(DeserializeClaims(payload)).expired
                   THEN CodecErr("ExpiredSignature")
              ELSE CodecOk(Get(DeserializeClaims(payload)))

----------------------------------------------------------------------------
(* JwtDecodeErrors and decode_jwt.                                          *)

InvalidAuthHeader == [kind |-> "InvalidAuthHeader"]
InvalidJWTHeader  == [kind |-> "InvalidJWTHeader"]
InvalidJWTToken(e) == [kind |-> "InvalidJWTToken", cause |-> e]

to_error_string(e) ==
    IF e.kind = "InvalidAuthHeader"
    THEN <<"Invalid authorization header - header contains invalid ASCII characters">>
    ELSE IF e.kind = "InvalidJWTHeader"
    THEN <<"Invalid authorization header - header need to have this format 'Bearer HEADER.PAYLOAD.SIGNATURE' where all three parts need to be base64 encoded and separated by a dot">>
    ELSE <<"Invalid JWT token - an error occurred when decoding token: ", e.cause>>

Ok(v)  == [ok |-> TRUE, val |-> v]
Err(e) == [ok |-> FALSE, err |-> e]

\* decode_jwt without the scheme check: the slice goes to the codec whatever
\* the first seven bytes are.
DecodeTraceNoScheme(header_value, decoding_key, validation) ==
    IF ~ToStrOk(header_value)
    THEN [result |-> Err(InvalidAuthHeader), scheme |-> FALSE, codec |-> None]
    ELSE LET token == SliceFrom(header_value, PrefixLen)
             r == JwtDecode(token, decoding_key, validation)
         IN [result |-> IF r.ok THEN Ok(r.claims)
                        ELSE Err(InvalidJWTToken(r.cause)),
             scheme |-> FALSE, codec |-> Some(token)]

\* decode_jwt, with the steps it reached: result is what it returns, scheme
\* tells whether starts_with was evaluated, codec is the argument given to
\* jsonwebtoken::decode, if it was called.
DecodeTrace(header_value, decoding_key, validation) ==
    IF ~ToStrOk(header_value)
    THEN [result |-> Err(InvalidAuthHeader), scheme |-> FALSE, codec |-> None]
    ELSE IF ~StartsWith(header_value, BearerPrefix)
    THEN [result |-> Err(InvalidJWTHeader), scheme |-> TRUE, codec |-> None]
    ELSE LET token == SliceFrom(header_value, PrefixLen)
             r == JwtDecode(token, decoding_key, validation)
         IN [result |-> IF r.ok THEN Ok(r.claims)
                        ELSE Err(InvalidJWTToken(r.cause)),
             scheme |-> TRUE, codec |-> Some(token)]

decode_jwt(header_value, decoding_key, validation) ==
    DecodeTrace(header_value, decoding_key, validation).result

----------------------------------------------------------------------------
(* Responses.                                                               *)

\* actix_web::error::ErrorBadRequest(msg): an Error that renders as HTTP 400.
ErrorBadRequest(msg) == [status |-> 400, body |-> msg]

\* The Error that a closure installed with error_handler returns for e.
ApplyMapper(f, e) == [status |-> 401, body |-> <<f, e.kind>>]

\* The error built with the installed closure left out.
ErrorForDefaultOnly(self, e) == ErrorBadRequest(to_error_string(e))

\* The error that call builds for a decode failure e.
ErrorFor(self, e) ==
    IF self.err_handler # None
    THEN ApplyMapper(Get(self.err_handler), e)
    ELSE ErrorBadRequest(to_error_string(e))

\* req.error_response(err).map_into_right_body()
ErrorResponseRight(err) == [status |-> err.status, body |-> <<"Right", err.body>>]

\* ServiceResponse::map_into_left_body
MapIntoLeftBody(resp) == [status |-> resp.status, body |-> <<"Left", resp.body>>]

\* What the wrapped service may produce for a request whose extensions hold
\* ext: a response built from the claims it finds there, or a fault.
DownstreamResults(ext) ==
    { Ok([status |-> 200,
          body |-> IF ext = None THEN "anonymous" ELSE Get(ext).user_id]),
      Err("downstream fault") }

\* An insert that keeps a value already stored.
ExtInsertKeep(ext, v) == IF ext = None THEN Some(v) ELSE ext

\* Extensions::insert for the type T: the new value replaces the old one.
ExtInsert(ext, v) == Some(v)

----------------------------------------------------------------------------
(* State.                                                                   *)
(*                                                                         *)
(* mw is the JwtMiddleware, svc[s] the JwtService bound by the s-th         *)
(* new_transform, req[r] the r-th request.  Of a request: header is its    *)
(* Authorization header, prior what the extensions held for T when call    *)
(* received it, ext what they hold now, result what the future returned by *)
(* call resolved to.  The other fields record what call did: decodeCalls   *)
(* and decoded (the calls of decode_jwt and its result), scheme and codec  *)
(* (the steps decode_jwt reached), inserted, mapperCalls (the arguments    *)
(* the installed closure was called with), dsCalls, dsSeen and dsResult    *)
(* (the calls of self.service, the extensions it received, its result).    *)

IdleRequest ==
    [pc |-> "idle", header |-> None, service |-> None,
     prior |-> None, ext |-> None, inserted |-> FALSE,
     decodeCalls |-> 0, decoded |-> None, scheme |-> FALSE, codec |-> None,
     mapperCalls |-> <<>>,
     dsCalls |-> 0, dsSeen |-> None, dsResult |-> None,
     result |-> None]

\* JwtMiddleware::new(decoding_key, validation)
New(decoding_key, validation) ==
    [decoding_key |-> decoding_key, validation |-> validation,
     err_handler |-> None]

Init ==
    /\ \E k \in Keys, v \in Validations : mw = New(k, v)
    /\ svc = [s \in Services |-> None]
    /\ req = [r \in Requests |-> IdleRequest]

\* JwtMiddleware::error_handler(f)
error_handler(f) ==
    /\ mw' = [mw EXCEPT !.err_handler = Some(f)]
    /\ UNCHANGED <<svc, req>>

\* A service built with Validation::default() instead of the factory's policy.
BoundServiceDefaultValidation(m) ==
    [decoding_key |-> m.decoding_key, validation |-> [validate_exp |-> TRUE],
     err_handler |-> m.err_handler]

\* The JwtService that new_transform builds from the factory's fields.
BoundService(m) ==
    [decoding_key |-> m.decoding_key, validation |-> m.validation,
     err_handler |-> m.err_handler]

\* JwtMiddleware::new_transform(service)
new_transform(s) ==
    /\ svc[s] = None
    /\ \A t \in Services : t < s => svc[t] # None
    /\ svc' = [svc EXCEPT ![s] = Some(BoundService(mw))]
    /\ UNCHANGED <<mw, req>>

\* self.service.call(req): the request, with its extensions, moves to the
\* wrapped service.
Forward(rq) ==
    [rq EXCEPT !.pc = "forwarded", !.dsCalls = @ + 1, !.dsSeen = rq.ext]

\* The failure let through: the request is forwarded without claims.
ShortCircuitPassThrough(self, rq, e) == Forward(rq)

\* The Err arm of call: the error response is the result, and the wrapped
\* service is not called.
ShortCircuit(self, rq, e) ==
    [rq EXCEPT !.pc = "done",
               !.mapperCalls = IF self.err_handler # None
                               THEN Append(@, e) ELSE @,
               !.result = Some(Ok(ErrorResponseRight(ErrorFor(self, e))))]

\* A request without the header rejected instead of forwarded.
NoHeaderReject(self, rq) == ShortCircuit(self, rq, InvalidAuthHeader)

\* The request has no Authorization header: the if-let is skipped.
NoHeader(self, rq) == Forward(rq)

\* The state of a request when JwtService::call returns its future: either
\* the error response is ready, or the request was handed to self.service.
CallOutcome(self, auth_header_value, prior) ==
    LET base == [IdleRequest EXCEPT !.header = auth_header_value,
                                    !.prior = prior, !.ext = prior]
    IN IF auth_header_value = None
       THEN NoHeader(self, base)
       ELSE
         LET d == DecodeTrace(Get(auth_header_value), self.decoding_key,
                              self.validation)
             claims == d.result
             tried == [base EXCEPT !.decodeCalls = @ + 1,
                                   !.decoded = Some(claims),
                                   !.scheme = d.scheme, !.codec = d.codec]
         IN IF claims.ok
            THEN Forward([tried EXCEPT !.ext = ExtInsert(@, claims.val),
                                       !.inserted = TRUE])
            ELSE ShortCircuit(self, tried, claims.err)

\* JwtService::call(req), up to the point where it returns its future.
Call(r, s, auth_header_value, prior) ==
    /\ req[r].pc = "idle"
    /\ \A q \in Requests : q < r => req[q].pc # "idle"
    /\ svc[s] # None
    /\ req' = [req EXCEPT ![r] =
                 [CallOutcome(Get(svc[s]), auth_header_value, prior)
                     EXCEPT !.service = Some(s)]]
    /\ UNCHANGED <<mw, svc>>

\* fut.await?.map_into_left_body()
AwaitResult(res) == IF res.ok THEN Ok(MapIntoLeftBody(res.val)) ELSE res

\* The downstream future resolves and the future returned by call completes.
Complete(r, res) ==
    /\ req[r].pc = "forwarded"
    /\ res \in DownstreamResults(req[r].dsSeen)
    /\ req' = [req EXCEPT ![r].pc = "done",
                          ![r].dsResult = Some(res),
                          ![r].result = Some(AwaitResult(res))]
    /\ UNCHANGED <<mw, svc>>

Next ==
    \/ \E f \in Mappers : error_handler(f)
    \/ \E s \in Services : new_transform(s)
    \/ \E r \in Requests, s \in Services,
          h \in {Some(hv) : hv \in HeaderValues} \cup {None},
          prior \in {None, Some(PriorClaims)} : Call(r, s, h, prior)
    \/ \E r \in Requests,
          res \in UNION {DownstreamResults(e) :
                           e \in {None, Some(PriorClaims),
                                  DeserializeClaims(<<112>>),
                                  DeserializeClaims(<<113>>)}} :
          Complete(r, res)

Spec == Init /\ [][Next]_vars

----------------------------------------------------------------------------
(* Vocabulary of the properties, stated on bytes and independently of the   *)
(* operators above.                                                         *)

Called(r) == req[r].pc # "idle"
HasHeader(r) == Called(r) /\ req[r].header # None
Hdr(r) == Get(req[r].header)

\* The configuration of the instance that handled request r.
Cfg(r) == Get(svc[Get(req[r].service)])

IsText(h) == \A i \in 1..Len(h) : (32 <= h[i] /\ h[i] <= 126) \/ h[i] = 9

HasBearerPrefix(h) ==
    /\ Len(h) >= 7
    /\ <<h[1], h[2], h[3], h[4], h[5], h[6], h[7]>> = <<66, 101, 97, 114, 101, 114, 32>>

TokenOf(h) == SubSeq(h, 8, Len(h))

Codec(r) == JwtDecode(TokenOf(Hdr(r)), Cfg(r).decoding_key, Cfg(r).validation)

Accepted(r) ==
    /\ HasHeader(r)
    /\ IsText(Hdr(r))
    /\ HasBearerPrefix(Hdr(r))
    /\ Codec(r).ok

DecodeFailed(r) ==
    /\ HasHeader(r)
    /\ req[r].decoded # None
    /\ ~Get(req[r].decoded).ok

FailureOf(r) == Get(req[r].decoded).err

----------------------------------------------------------------------------
\* C1: for a request whose header is text starting with "Bearer " and whose
\* remaining substring the codec accepts under the configured key and policy,
\* call stores the decoded claims in the extensions before it calls the
\* downstream service (replacing a value of the same type already there),
\* calls the downstream service exactly once, and returns exactly the
\* downstream result: its response, or its fault unmodified.
C1_AcceptedTokenForwarded ==
    \A r \in Requests :
        Accepted(r) =>
            /\ req[r].dsCalls = 1
            /\ req[r].dsSeen = Some(Codec(r).claims)
            /\ req[r].ext = Some(Codec(r).claims)
            /\ req[r].pc \in {"forwarded", "done"}
            /\ req[r].pc = "done" =>
                   LET ds == Get(req[r].dsResult)
                       out == Get(req[r].result)
                   IN IF ds.ok
                      THEN /\ out.ok
                           /\ out.val.status = ds.val.status
                           /\ out.val.body = <<"Left", ds.val.body>>
                      ELSE out = ds

\* C1 witness: an accepted token on a request that already held claims of
\* the same type, whose downstream response has come back.
C1_Witness ==
    \E r \in Requests :
        /\ Accepted(r)
        /\ req[r].prior = Some(PriorClaims)
        /\ req[r].pc = "done"
        /\ Get(req[r].result).ok

\* C2: for a request with no Authorization header, call makes no decode
\* attempt, attaches no claims, never invokes the error mapper and forwards
\* the request unchanged to the downstream service, which is called once.
C2_NoHeaderForwardedUnchanged ==
    \A r \in Requests :
        (Called(r) /\ req[r].header = None) =>
            /\ req[r].decodeCalls = 0
            /\ req[r].decoded = None
            /\ req[r].codec = None
            /\ ~req[r].inserted
            /\ req[r].ext = req[r].prior
            /\ req[r].dsSeen = req[r].prior
            /\ req[r].mapperCalls = <<>>
            /\ req[r].dsCalls = 1

\* C2 witness: a request without the header, handled by an instance with a
\* custom mapper installed, has completed.
C2_Witness ==
    \E r \in Requests :
        /\ Called(r)
        /\ req[r].header = None
        /\ Cfg(r).err_handler # None
        /\ req[r].pc = "done"

\* C3, as stated: every header value that does not start with "Bearer " is
\* classified InvalidJWTHeader and the downstream service is not called.
C3_Original ==
    \A r \in Requests :
        (HasHeader(r) /\ ~HasBearerPrefix(Hdr(r))) =>
            /\ req[r].decoded = Some(Err(InvalidJWTHeader))
            /\ req[r].dsCalls = 0

\* C3, amended: every header value that is text and does not start with
\* "Bearer " is classified InvalidJWTHeader and the downstream service is
\* not called; a value that is not text is classified InvalidAuthHeader
\* whatever it starts with.
C3_TextWithoutBearerPrefix ==
    \A r \in Requests :
        HasHeader(r) =>
            /\ (IsText(Hdr(r)) /\ ~HasBearerPrefix(Hdr(r))) =>
                   /\ req[r].decoded = Some(Err(InvalidJWTHeader))
                   /\ req[r].codec = None
                   /\ req[r].dsCalls = 0
                   /\ req[r].pc = "done"
            /\ (~IsText(Hdr(r)) /\ ~HasBearerPrefix(Hdr(r))) =>
                   /\ req[r].decoded = Some(Err(InvalidAuthHeader))
                   /\ req[r].dsCalls = 0

\* C3 witness: "bearer h.p.k" and "BearerXh.p.k" have both been handled.
C3_Witness ==
    /\ \E r \in Requests :
          /\ HasHeader(r)
          /\ Hdr(r) = <<98, 101, 97, 114, 101, 114, 32, 104, 46, 112, 46, 107>>
    /\ \E r \in Requests :
          /\ HasHeader(r)
          /\ Hdr(r) = <<66, 101, 97, 114, 101, 114, 88, 104, 46, 112, 46, 107>>

\* C4: a header value that is not text is classified InvalidAuthHeader; the
\* scheme check and the codec are not reached, the response is the rendering
\* of InvalidAuthHeader, and the downstream service is not called.
C4_NonTextHeader ==
    \A r \in Requests :
        (HasHeader(r) /\ ~IsText(Hdr(r))) =>
            /\ req[r].decoded = Some(Err(InvalidAuthHeader))
            /\ ~req[r].scheme
            /\ req[r].codec = None
            /\ req[r].dsCalls = 0
            /\ req[r].pc = "done"
            /\ req[r].result =
                   Some(Ok(IF Cfg(r).err_handler = None
                           THEN [status |-> 400,
                                 body |-> <<"Right", <<"Invalid authorization header - header contains invalid ASCII characters">> >>]
                           ELSE [status |-> 401,
                                 body |-> <<"Right", <<Get(Cfg(r).err_handler),
                                                       "InvalidAuthHeader">> >>]))

\* C4 witness: "Bearer h.p." followed by byte 255, a non-text value whose
\* scheme prefix matches, has been handled by an instance without a mapper.
C4_Witness ==
    \E r \in Requests :
        /\ HasHeader(r)
        /\ Hdr(r) = <<66, 101, 97, 114, 101, 114, 32, 104, 46, 112, 46, 255>>
        /\ Cfg(r).err_handler = None

\* C5: of a text header starting with "Bearer ", exactly the bytes after the
\* 7-byte prefix go to the codec with the configured key and policy; when
\* the codec fails, the classification is InvalidJWTToken carrying the
\* codec's cause and the downstream service is not called.
C5_CodecFailure ==
    \A r \in Requests :
        (HasHeader(r) /\ IsText(Hdr(r)) /\ HasBearerPrefix(Hdr(r))) =>
            /\ req[r].codec = Some(TokenOf(Hdr(r)))
            /\ Cfg(r).decoding_key = mw.decoding_key
            /\ Cfg(r).validation = mw.validation
            /\ ~Codec(r).ok =>
                   /\ req[r].decoded =
                          Some(Err([kind |-> "InvalidJWTToken",
                                    cause |-> Codec(r).cause]))
                   /\ req[r].dsCalls = 0
                   /\ req[r].pc = "done"

\* C5 witness: "Bearer h.p.w", a well-formed token signed with another key,
\* was rejected with the cause InvalidSignature.
C5_Witness ==
    \E r \in Requests :
        /\ HasHeader(r)
        /\ Hdr(r) = <<66, 101, 97, 114, 101, 114, 32, 104, 46, 112, 46, 119>>
        /\ req[r].decoded = Some(Err(InvalidJWTToken("InvalidSignature")))

\* C6: the downstream service is called at most once per request and only
\* when no header was supplied or decoding succeeded; when decoding of a
\* supplied header fails, it is not called.
C6_DownstreamOnlyOnSuccess ==
    \A r \in Requests :
        /\ req[r].dsCalls <= 1
        /\ req[r].dsCalls = 1 =>
               \/ req[r].header = None
               \/ Accepted(r) /\ Get(req[r].decoded).ok
        /\ (HasHeader(r) /\ ~Accepted(r)) =>
               /\ req[r].dsCalls = 0
               /\ req[r].dsResult = None
               /\ req[r].pc = "done"

\* C6 witness: one request was short-circuited while another was forwarded
\* and has completed.
C6_Witness ==
    \E r, q \in Requests :
        /\ DecodeFailed(r)
        /\ req[q].pc = "done"
        /\ req[q].dsCalls = 1

\* C7: the interceptor has attached claims to a request only if the header
\* check, the scheme check and the codec all succeeded for it; on every
\* failure path the extensions are as the request arrived.
C7_ClaimsOnlyAfterFullSuccess ==
    \A r \in Requests :
        /\ req[r].inserted => Accepted(r)
        /\ (Called(r) /\ req[r].ext # req[r].prior) => Accepted(r)
        /\ DecodeFailed(r) => (~req[r].inserted /\ req[r].ext = req[r].prior)

\* C7 witness: "bearer h.p.k", a valid token behind the wrong scheme, was
\* rejected on a request that held earlier claims.
C7_Witness ==
    \E r \in Requests :
        /\ DecodeFailed(r)
        /\ Hdr(r) = <<98, 101, 97, 114, 101, 114, 32, 104, 46, 112, 46, 107>>
        /\ req[r].prior = Some(PriorClaims)

\* C8: on every decode failure call completes with a normal response, not a
\* fault; with a custom mapper installed it is invoked exactly once with the
\* classification and its error builds the response; without one the
\* response is the 400 error carrying to_error_string's message.  The mapper
\* is never invoked on a forwarded request.
C8_FailureRendering ==
    \A r \in Requests :
        /\ DecodeFailed(r) =>
               /\ req[r].pc = "done"
               /\ req[r].result # None
               /\ Get(req[r].result).ok
               /\ IF Cfg(r).err_handler # None
                  THEN /\ req[r].mapperCalls = <<FailureOf(r)>>
                       /\ Get(req[r].result).val =
                              [status |-> 401,
                               body |-> <<"Right", <<Get(Cfg(r).err_handler),
                                                     FailureOf(r).kind>> >>]
                  ELSE /\ req[r].mapperCalls = <<>>
                       /\ Get(req[r].result).val.status = 400
                       /\ Get(req[r].result).val.body =
                              <<"Right", to_error_string(FailureOf(r))>>
        /\ req[r].dsCalls > 0 => req[r].mapperCalls = <<>>

\* C8 witness: the same kind of failure was rendered once by a custom mapper
\* and once by the default.
C8_Witness ==
    \E r, q \in Requests :
        /\ DecodeFailed(r)
        /\ DecodeFailed(q)
        /\ FailureOf(r) = FailureOf(q)
        /\ Cfg(r).err_handler # None
        /\ Cfg(q).err_handler = None

IsBase64Url(b) ==
    \/ b \in 65..90
    \/ b \in 97..122
    \/ b \in 48..57
    \/ b \in {45, 95}

MatchesBearerShape(h) ==
    /\ HasBearerPrefix(h)
    /\ LET t == TokenOf(h)
           dots == {i \in 1..Len(t) : t[i] = 46}
       IN /\ Cardinality(dots) = 2
          /\ \A i \in 1..Len(t) : i \notin dots => IsBase64Url(t[i])
          /\ 1 \notin dots
          /\ Len(t) \notin dots
          /\ \A i \in dots : (i + 1) \notin dots

\* C10: InvalidJWTHeader is what the interceptor reports for a header that
\* does not match the shape 'Bearer HEADER.PAYLOAD.SIGNATURE' (three
\* dot-separated base64 parts), as the message of to_error_string states.
C10_ShapeMismatchIsInvalidJWTHeader ==
    \A r \in Requests :
        (HasHeader(r) /\ IsText(Hdr(r)) /\ ~MatchesBearerShape(Hdr(r))) =>
            req[r].decoded = Some(Err(InvalidJWTHeader))

====
